---- MODULE Spec2Model ----
(***************************************************************************)
(* A model of the retrieval-and-fallback pipeline of andrew-py:            *)
(*   src/src/core/bot.py            Bot (setup, ask_question, clear_memory) *)
(*   src/src/core/store_manager.py  VectorStoreManager                      *)
(*   src/src/utils/helpers.py       google_search, extract_page_text,       *)
(*                                  is_cmu_africa_relevant,                 *)
(*                                  is_answer_unavailable                   *)
(* Texts are sequences of one-character strings, so that lower(), the      *)
(* substring test and slicing are computed and not assumed.                *)
(***************************************************************************)
EXTENDS Integers, Sequences, FiniteSets, TLC

VARIABLES
    current_memory,   \* Bot.current_memory: None or the id of a memory object
    current_chain,    \* Bot.current_chain: None or a chain object
    vectorstore,      \* VectorStoreManager.vectorstore: None or the loaded index
    chains,           \* QAChainManager's registry: chain name -> chain or None
    turns,            \* contents of every memory object: id -> number of turns held
    nextId,           \* number of objects (memories, chains) constructed so far
    last,             \* what the last public call of the Bot did and returned
    s_in,             \* google_search: the arguments and the environment of the call
    s_out,            \* google_search: what the call did and returned
    j_answer,         \* is_answer_unavailable: the argument
    j_result,         \* is_answer_unavailable: the returned value
    d_file,           \* the sources file: its lines
    d_vectorstore,    \* DocumentProcessor.vectorstore_manager.vectorstore
    d_disk,           \* the saved indexes on disk: store path -> index or none
    d_last            \* what the last call of the DocumentProcessor did and returned

vars == <<current_memory, current_chain, vectorstore, chains, turns, nextId, last,
          s_in, s_out, j_answer, j_result, d_file, d_vectorstore, d_disk, d_last>>

botVars == <<current_memory, current_chain, vectorstore, chains, turns, nextId, last>>
searchVars == <<s_in, s_out>>
judgeVars == <<j_answer, j_result>>
docVars == <<d_file, d_vectorstore, d_disk, d_last>>

\* Python's None.
None == "None"

-----------------------------------------------------------------------------
(* Bounds of the model. *)

\* Longest padding put before and after a phrase in the judged texts.
MaxPad == 1
\* Longest list of organic results the search provider returns.
MaxResults == 3
\* Largest num_results passed to google_search.
MaxN == 3
\* Most page fetches that fail during one google_search call.
MaxFail == 1
\* Most objects (memories and chains) one Bot constructs.
MaxObjects == 2
\* Most turns a conversation memory holds.
MaxTurns == 1

-----------------------------------------------------------------------------
(* Text: str.lower(), the `in` operator on strings, slicing, join. *)

UpperChars == <<"A","B","C","D","E","F","G","H","I","J","K","L","M","N","O","P","Q","R","S","T","U","V","W","X","Y","Z">>
LowerChars == <<"a","b","c","d","e","f","g","h","i","j","k","l","m","n","o","p","q","r","s","t","u","v","w","x","y","z">>

\* The lower-case letter of every upper-case letter.
ToLower == [c \in {UpperChars[i] : i \in 1..Len(UpperChars)} |->
               LowerChars[CHOOSE i \in 1..Len(UpperChars) : UpperChars[i] = c]]

LowerChar(c) == IF c \in DOMAIN ToLower THEN ToLower[c] ELSE c

\* str.lower()
RECURSIVE Lower(_)
Lower(s) == IF s = <<>> THEN <<>> ELSE <<LowerChar(Head(s))>> \o Lower(Tail(s))

\* sub in s
Contains(s, sub) ==
    \E i \in 0..(Len(s) - Len(sub)) : SubSeq(s, i + 1, i + Len(sub)) = sub

\* s[:n]
Take(s, n) == IF Len(s) <= n THEN s ELSE SubSeq(s, 1, n)

\* sep.join(parts)
RECURSIVE Join(_, _)
Join(parts, sep) ==
    IF parts = <<>> THEN <<>>
    ELSE IF Len(parts) = 1 THEN parts[1]
    ELSE parts[1] \o sep \o Join(Tail(parts), sep)

\* x in list
InList(x, list) == \E i \in 1..Len(list) : list[i] = x

-----------------------------------------------------------------------------
(* helpers.py: is_answer_unavailable, is_cmu_africa_relevant *)

keywords ==
    << <<"n","o","t"," ","a","v","a","i","l","a","b","l","e">>,
       <<"n","o","t"," ","i","n"," ","t","h","e"," ","c","o","n","t","e","x","t">>,
       <<"i","'","m"," ","s","o","r","r","y">>,
       <<"i"," ","a","m"," ","s","o","r","r","y">>,
       <<"n","o"," ","i","n","f","o","r","m","a","t","i","o","n">>,
       <<"c","a","n","'","t"," ","a","n","s","w","e","r">>,
       <<"c","a","n","n","o","t"," ","a","n","s","w","e","r">>,
       <<"i","n","s","u","f","f","i","c","i","e","n","t"," ","c","o","n","t","e","x","t">>,
       <<"d","o","n","'","t"," ","h","a","v","e"," ","i","n","f","o","r","m","a","t","i","o","n">>,
       <<"u","n","a","b","l","e"," ","t","o"," ","f","i","n","d">>,
       <<"t","h","e"," ","t","e","x","t"," ","d","o","e","s"," ","n","o","t"," ","p","r","o","v","i","d","e">> >>

\* The judge without the lower(): a phrase matches only as it is spelled.
is_answer_unavailable_CaseSensitive(answer) ==
    \E k \in 1..Len(keywords) : Contains(answer, keywords[k])

is_answer_unavailable(answer) ==
    \E k \in 1..Len(keywords) : Contains(Lower(answer), keywords[k])

cmu_africa_keywords ==
    << <<"r","w","a","n","d","a">>,
       <<"k","i","g","a","l","i">>,
       <<"r","w">>,
       <<"c","m","u","-","a","f","r","i","c","a">> >>

is_cmu_africa_relevant(text) ==
    LET text_lower == Lower(text)
    IN  \E k \in 1..Len(cmu_africa_keywords) : Contains(text_lower, cmu_africa_keywords[k])

-----------------------------------------------------------------------------
(* The texts is_answer_unavailable is judged on: every phrase in several   *)
(* letter cases, every phrase with its first or its last letter missing,   *)
(* and no phrase at all, each between two paddings.                        *)

ToUpper == [c \in {LowerChars[i] : i \in 1..Len(LowerChars)} |->
               UpperChars[CHOOSE i \in 1..Len(LowerChars) : LowerChars[i] = c]]

UpperChar(c) == IF c \in DOMAIN ToUpper THEN ToUpper[c] ELSE c

RECURSIVE Upper(_)
Upper(s) == IF s = <<>> THEN <<>> ELSE <<UpperChar(Head(s))>> \o Upper(Tail(s))

\* Every other letter in upper case, the first one included.
RECURSIVE Alternating(_)
Alternating(s) ==
    IF s = <<>> THEN <<>>
    ELSE IF Len(s) = 1 THEN <<UpperChar(s[1])>>
    ELSE <<UpperChar(s[1]), s[2]>> \o Alternating(Tail(Tail(s)))

DropLast(s) == SubSeq(s, 1, Len(s) - 1)

PadChars == {"E", "n", " "}

RECURSIVE SeqsUpTo(_, _)
SeqsUpTo(S, n) ==
    IF n = 0 THEN {<<>>}
    ELSE LET shorter == SeqsUpTo(S, n - 1)
         IN  shorter \cup {Append(s, c) : s \in shorter, c \in S}

Pads == SeqsUpTo(PadChars, MaxPad)

Cores ==
    {<<>>}
    \cup {keywords[k] : k \in 1..Len(keywords)}
    \cup {Upper(keywords[k]) : k \in 1..Len(keywords)}
    \cup {Alternating(keywords[k]) : k \in 1..Len(keywords)}
    \cup {DropLast(keywords[k]) : k \in 1..Len(keywords)}
    \cup {Tail(Upper(keywords[k])) : k \in 1..Len(keywords)}

JudgeTexts == {pre \o core \o suf : pre \in Pads, core \in Cores, suf \in Pads}

NotJudged == [called |-> FALSE, value |-> FALSE]

-----------------------------------------------------------------------------
(* helpers.py: extract_page_text and google_search.                        *)
(* The environment of one google_search call (env):                        *)
(*   api_key   what os.getenv("SERPAPI_API_KEY") returns                   *)
(*   provider  "ok", or "raise" when GoogleSearch(...).get_dict() raises   *)
(*   results   the links of results["organic_results"], in ranked order    *)
(*   failed    the fetches <<pass, rank>> in which requests.get raises     *)

\* soup.get_text()[:2000]
PageCap == 2000

\* The pages behind the links: two relevant pages with the same text, a
\* page that is not relevant, and a page without any text.
Web ==
    [link \in {"a", "b", "c", "d"} |->
        CASE link = "a" -> <<"K","i","g","a","l","i"," ","c","a","m","p","u","s">>
          [] link = "b" -> <<"K","i","g","a","l","i"," ","c","a","m","p","u","s">>
          [] link = "c" -> <<"w","e","a","t","h","e","r">>
          [] link = "d" -> <<>>]

\* res.get("link", ""): a result may come without a link.
Links == DOMAIN Web \cup {""}

\* requests.get raises on the empty url and whenever the fetch fails; the
\* except clause turns both into "".
extract_page_text(url, fetch_ok) ==
    IF url \in DOMAIN Web /\ fetch_ok THEN Take(Web[url], PageCap) ELSE <<>>

CmuAfrica == <<"c","m","u","-","a","f","r","i","c","a">>

\* lines 36-37: append the institution to a query that does not name it
AugmentQuery(query, add_cmu_africa_context) ==
    IF add_cmu_africa_context /\ ~Contains(Lower(query), CmuAfrica)
    THEN query \o <<" ">> \o CmuAfrica
    ELSE query

\* lines 40-47
search_params(query, api_key, num_results) ==
    [q |-> query, api_key |-> api_key, num |-> num_results * 2,
     gl |-> "rw", location |-> "Rwanda", hl |-> "en"]

\* What the loops of google_search carry: the snippets, the rank of the
\* result each came from, and the number of pages fetched.
NoSnippets == [snippets |-> <<>>, ranks |-> <<>>, fetches |-> 0]

\* lines 53-63: the relevant snippets, in ranked order
RECURSIVE FirstPass(_, _, _, _)
FirstPass(env, num_results, i, acc) ==
    IF i > Len(env.results) THEN acc
    ELSE LET snippet == extract_page_text(env.results[i], <<1, i>> \notin env.failed)
             keep == snippet # <<>> /\ is_cmu_africa_relevant(snippet)
             acc2 == [snippets |-> IF keep THEN Append(acc.snippets, snippet) ELSE acc.snippets,
                      ranks |-> IF keep THEN Append(acc.ranks, i) ELSE acc.ranks,
                      fetches |-> acc.fetches + 1]
         IN  IF Len(acc2.snippets) >= num_results THEN acc2
             ELSE FirstPass(env, num_results, i + 1, acc2)

\* The second pass without `snippet not in snippets`.
RECURSIVE SecondPass_NoDedup(_, _, _, _)
SecondPass_NoDedup(env, num_results, i, acc) ==
    IF i > Len(env.results) THEN acc
    ELSE IF Len(acc.snippets) >= num_results THEN acc
    ELSE LET snippet == extract_page_text(env.results[i], <<2, i>> \notin env.failed)
             keep == snippet # <<>>
             acc2 == [snippets |-> IF keep THEN Append(acc.snippets, snippet) ELSE acc.snippets,
                      ranks |-> IF keep THEN Append(acc.ranks, i) ELSE acc.ranks,
                      fetches |-> acc.fetches + 1]
         IN  SecondPass_NoDedup(env, num_results, i + 1, acc2)

\* lines 67-73: the second pass over the same results, every page fetched again
RECURSIVE SecondPass(_, _, _, _)
SecondPass(env, num_results, i, acc) ==
    IF i > Len(env.results) THEN acc
    ELSE IF Len(acc.snippets) >= num_results THEN acc
    ELSE LET snippet == extract_page_text(env.results[i], <<2, i>> \notin env.failed)
             keep == snippet # <<>> /\ ~InList(snippet, acc.snippets)
             acc2 == [snippets |-> IF keep THEN Append(acc.snippets, snippet) ELSE acc.snippets,
                      ranks |-> IF keep THEN Append(acc.ranks, i) ELSE acc.ranks,
                      fetches |-> acc.fetches + 1]
         IN  SecondPass(env, num_results, i + 1, acc2)

\* A google_search call that raised after the requests it had issued.
SearchRaised(error, requests) ==
    [called |-> TRUE, raised |-> TRUE, error |-> error, requests |-> requests,
     fetches |-> 0, snippets |-> <<>>, ranks |-> <<>>, relevant |-> 0, text |-> <<>>]

\* lines 49-75: the search request, the two passes and the join
CollectSnippets(params, num_results, env) ==
    IF env.provider = "raise" THEN SearchRaised("provider", <<params>>)
    ELSE LET first == FirstPass(env, num_results, 1, NoSnippets)
             all == IF Len(first.snippets) < num_results
                    THEN SecondPass(env, num_results, 1, first)
                    ELSE first
         IN  [called |-> TRUE, raised |-> FALSE, error |-> None, requests |-> <<params>>,
              fetches |-> all.fetches, snippets |-> all.snippets, ranks |-> all.ranks,
              relevant |-> Len(first.snippets),
              text |-> Join(all.snippets, <<"\n", "\n">>)]

\* google_search with the credential looked at only after the search request.
google_search_KeyCheckedLate(query, num_results, add_cmu_africa_context, env) ==
    LET params == search_params(AugmentQuery(query, add_cmu_africa_context),
                                env.api_key, num_results)
        r == CollectSnippets(params, num_results, env)
    IN  IF r.raised THEN r
        ELSE IF env.api_key = None \/ env.api_key = "" THEN SearchRaised("ValueError", r.requests)
        ELSE r

\* lines 19-75
google_search(query, num_results, add_cmu_africa_context, env) ==
    IF env.api_key = None \/ env.api_key = ""
    THEN SearchRaised("ValueError", <<>>)
    ELSE CollectSnippets(search_params(AugmentQuery(query, add_cmu_africa_context),
                                       env.api_key, num_results),
                         num_results, env)

NotSearched ==
    [called |-> FALSE, raised |-> FALSE, error |-> None, requests |-> <<>>,
     fetches |-> 0, snippets |-> <<>>, ranks |-> <<>>, relevant |-> 0, text |-> <<>>]

\* The inputs of the google_search calls checked.
ApiKeys == {None, "", "serp-key"}
Queries ==
    { <<"f","e","e","s">>,
      <<"C","M","U","-","A","f","r","i","c","a"," ","f","e","e","s">> }
\* The ranked lists of results: no link comes twice.
ResultLists ==
    {rs \in UNION {[1..n -> Links] : n \in 0..MaxResults} :
        \A i \in 1..Len(rs) : \A j \in 1..Len(rs) : i # j => rs[i] # rs[j]}
Fetches(n) == {1, 2} \X (1..n)
FailedSets(n) == {F \in SUBSET Fetches(n) : Cardinality(F) <= MaxFail}

SearchEnvs ==
    UNION {{[api_key |-> k, provider |-> "ok", results |-> rs, failed |-> F] :
                k \in ApiKeys, F \in FailedSets(Len(rs))} : rs \in ResultLists}
    \cup
    {[api_key |-> k, provider |-> "raise", results |-> <<>>, failed |-> {}] : k \in ApiKeys}

-----------------------------------------------------------------------------
(* bot.py and store_manager.py: the objects of a Bot.                      *)
(* A memory object is its id (1, 2, ...); 0 stands for None. A chain is    *)
(* the record of what it was built from; NoChain stands for None. A text   *)
(* the code writes as a literal is a sequence of one piece.                *)

NoMemory == 0
NoChain == [kind |-> "None", memory |-> 0, store |-> "None"]

ChainNames == {"default", "strict"}
StorePaths == {"./src/store"}

\* MemoryManager.create_memory: a new memory object, which holds no turn
create_memory(n) == n + 1

\* QAChainManager.create_conversational_chain: the chain over a retriever
\* and a memory
create_conversational_chain(retriever, memory) ==
    [kind |-> "ConversationalRetrieval", memory |-> memory, store |-> retriever]

\* QAChainManager.get_chain: the chain registered under a name, or None
get_chain(registry, chain_name) ==
    IF chain_name \in DOMAIN registry THEN registry[chain_name] ELSE NoChain

\* store_manager.py, load_vectorstore: FAISS.load_local raises before the
\* assignment, and the except clause returns False
load_vectorstore(store, path, load_ok) ==
    [returned |-> load_ok, vectorstore |-> IF load_ok THEN path ELSE store]

\* store_manager.py, get_retriever: raises without a vector store, or when
\* as_retriever raises
get_retriever(store, retriever_ok) ==
    IF store = None \/ ~retriever_ok
    THEN [raised |-> TRUE, retriever |-> None]
    ELSE [raised |-> FALSE, retriever |-> store]

\* The state of a Bot a call works on.
BotState ==
    [current_memory |-> current_memory, current_chain |-> current_chain,
     vectorstore |-> vectorstore, chains |-> chains]

SetupDone(st, returned, outcome) ==
    [state |-> st, returned |-> returned, outcome |-> outcome]

\* bot.py lines 72-82, with the new memory in st.current_memory
SetupChain(st, path, env) ==
    LET loaded == load_vectorstore(st.vectorstore, path, env.load = "ok")
        st1 == [st EXCEPT !.vectorstore = loaded.vectorstore]
        got == get_retriever(st1.vectorstore, env.retriever = "ok")
        chain == IF env.chain = "none" THEN NoChain
                 ELSE create_conversational_chain(got.retriever, st1.current_memory)
    IN  IF ~loaded.returned THEN SetupDone(st1, FALSE, "load_failed")
        ELSE IF got.raised THEN SetupDone(st1, FALSE, "raised")
        ELSE IF env.chain = "raise" THEN SetupDone(st1, FALSE, "raised")
        ELSE SetupDone([st1 EXCEPT !.current_chain = chain,
                                   !.chains = IF env.registers /\ chain # NoChain
                                              THEN [@ EXCEPT !["default"] = chain]
                                              ELSE @],
                       chain # NoChain,
                       IF chain # NoChain THEN "ok" ELSE "no_chain")

\* A setup that drops the active chain before it loads the index.
setup_from_vectorstore_ResetFirst(st, path, env, fresh) ==
    IF env.memory = "raise" THEN SetupDone([st EXCEPT !.current_chain = NoChain], FALSE, "raised")
    ELSE SetupChain([st EXCEPT !.current_memory = fresh, !.current_chain = NoChain], path, env)

\* bot.py lines 63-86
setup_from_vectorstore(st, path, env, fresh) ==
    IF env.memory = "raise" THEN SetupDone(st, FALSE, "raised")
    ELSE SetupChain([st EXCEPT !.current_memory = fresh], path, env)

\* The environments of a setup: all goes well (the chain is registered under
\* "default" or is not), or one step fails and the steps after it do not run.
SetupOk == [memory |-> "ok", load |-> "ok", retriever |-> "ok", chain |-> "ok",
            registers |-> FALSE]

SetupEnvs ==
    { SetupOk,
      [SetupOk EXCEPT !.registers = TRUE],
      [SetupOk EXCEPT !.memory = "raise"],
      [SetupOk EXCEPT !.load = "raise"],
      [SetupOk EXCEPT !.retriever = "raise"],
      [SetupOk EXCEPT !.chain = "raise"],
      [SetupOk EXCEPT !.chain = "none"] }

-----------------------------------------------------------------------------
(* bot.py: ask_question.                                                   *)
(* The environment of one call (env):                                      *)
(*   chain_ok    FALSE when chain.invoke raises                            *)
(*   result      what chain.invoke returns                                 *)
(*   search      the environment of the google_search call                 *)
(*   llm_ok      FALSE when llm.invoke raises                              *)
(*   content     the content of what llm.invoke returns                    *)

\* helpers.py line 19: num_results: int = 3
DefaultNumResults == 3

\* The answer of lines 95-98 with a fallback_used entry.
NoChainAnswer_WithFlag ==
    [answer |-> <<"No QA chain available. Please run setup first.">>,
     source_documents |-> <<>>,
     fallback_used |-> FALSE]

\* lines 95-98
NoChainAnswer ==
    [answer |-> <<"No QA chain available. Please run setup first.">>,
     source_documents |-> <<>>]

\* lines 132-135
ErrorAnswer ==
    [answer |-> <<"Sorry, I encountered an error processing your question.">>,
     source_documents |-> <<>>]

\* What a run of ask_question did: whether an exception is on its way out,
\* the objects yielded, and the calls made to the chain, to google_search
\* and to the llm.
Ran(raised, yielded, chain_calls, search_calls, llm_calls) ==
    [raised |-> raised, yielded |-> yielded, chain_calls |-> chain_calls,
     search_calls |-> search_calls, llm_calls |-> llm_calls]

\* The fallback answer without its fallback_used entry.
FallbackAnswer_NoFlag(content) ==
    [answer |-> content,
     source_documents |-> << [page_content |-> content,
                              metadata |-> [source |-> "www.google.com, Google Search"]] >>]

\* lines 117-126
FallbackAnswer(content) ==
    [answer |-> content,
     source_documents |-> << [page_content |-> content,
                              metadata |-> [source |-> "www.google.com, Google Search"]] >>,
     fallback_used |-> TRUE]

\* line 114
fallback_prompt(google_context, question) ==
    <<"Use the information below to answer the user's question.\n\nContext:\n">>
    \o google_context \o <<"\n\nQuestion: ">> \o question

\* lines 114-126, with what google_search did
FallbackWith(found, question, inputs, env) ==
    IF found.raised THEN Ran(TRUE, <<>>, <<inputs>>, <<question>>, <<>>)
    ELSE IF ~env.llm_ok
    THEN Ran(TRUE, <<>>, <<inputs>>, <<question>>, <<fallback_prompt(found.text, question)>>)
    ELSE Ran(FALSE, <<FallbackAnswer(env.content)>>, <<inputs>>, <<question>>,
             <<fallback_prompt(found.text, question)>>)

\* lines 112-126: google_search is called once, with the question
Fallback(question, inputs, env) ==
    CHOOSE ran \in {FallbackWith(found, question, inputs, env) :
                        found \in {google_search(question, DefaultNumResults, TRUE, env.search)}} :
        TRUE

\* The usable answer handed on without its source documents.
Direct_DropSources(result, inputs) ==
    Ran(FALSE, << [answer |-> IF "answer" \in DOMAIN result THEN result.answer ELSE <<>>,
                   source_documents |-> <<>>] >>, <<inputs>>, <<>>, <<>>)

\* lines 127-128
Direct(result, inputs) == Ran(FALSE, <<result>>, <<inputs>>, <<>>, <<>>)

\* lines 102-128: the body of the try
TryBody(chain, question, env) ==
    LET inputs == IF chain.kind = "ConversationalRetrieval"
                  THEN [key |-> "question", value |-> question]
                  ELSE [key |-> "input", value |-> question]
        result == env.result
        answer == IF "answer" \in DOMAIN result THEN result.answer ELSE <<>>
    IN  IF ~env.chain_ok THEN Ran(TRUE, <<>>, <<inputs>>, <<>>, <<>>)
        ELSE IF is_answer_unavailable(answer) THEN Fallback(question, inputs, env)
        ELSE Direct(result, inputs)

\* A try without its except clause: the exception goes on.
except_Nothing(body) == body

\* lines 101 and 130-135: an exception of the body becomes the error answer
except_Exception(body) ==
    IF body.raised
    THEN [body EXCEPT !.raised = FALSE, !.yielded = <<ErrorAnswer>>]
    ELSE body

\* lines 88-135
ask_question(st, question, chain_name, env) ==
    LET named == get_chain(st.chains, chain_name)
        chain == IF named # NoChain THEN named ELSE st.current_chain
    IN  IF chain = NoChain
        THEN [chain |-> NoChain, run |-> Ran(FALSE, <<NoChainAnswer>>, <<>>, <<>>, <<>>)]
        ELSE [chain |-> chain, run |-> except_Exception(TryBody(chain, question, env))]

\* The inputs of the ask_question calls checked.
Questions ==
    { <<"f","e","e","s">> }

Handbook ==
    [page_content |-> <<"M","a","y">>, metadata |-> [source |-> "handbook.pdf"]]

\* What the chain returns: a grounded answer, an answer that regrets without
\* a trigger phrase, two refusals, and an empty answer.
Grounded ==
    [answer |-> <<"C","l","a","s","s","e","s"," ","s","t","a","r","t"," ","i","n"," ","M","a","y">>,
     source_documents |-> <<Handbook>>]
Refused ==
    [answer |-> <<"I"," ","C","A","N","N","O","T"," ","a","n","s","w","e","r"," ","t","h","a","t">>,
     source_documents |-> <<Handbook>>]

Declined ==
    [answer |-> <<"c","a","n","n","o","t"," ","a","n","s","w","e","r">>,
     source_documents |-> <<>>]

ChainResults ==
    { Grounded,
      Refused,
      [answer |-> <<"S","o","r","r","y">>, source_documents |-> <<>>],
      Declined,
      [answer |-> <<>>, source_documents |-> <<Handbook>>] }

FromTheWeb == <<"F","r","o","m"," ","t","h","e"," ","w","e","b">>

LlmContents == {FromTheWeb, <<>>}

SearchOk == [api_key |-> "serp-key", provider |-> "ok", results |-> <<"a", "c">>,
             failed |-> {}]

BotSearchEnvs ==
    { SearchOk, [SearchOk EXCEPT !.api_key = None], [SearchOk EXCEPT !.provider = "raise"] }

\* The environments of a call: every step succeeds, or one step raises and
\* the steps after it do not run.
AskOk(result, content) ==
    [chain_ok |-> TRUE, result |-> result, search |-> SearchOk,
     llm_ok |-> TRUE, content |-> content]

AskEnvs ==
    {AskOk(r, FromTheWeb) : r \in ChainResults}
    \cup {AskOk(Refused, c) : c \in LlmContents}
    \cup {[AskOk(r, FromTheWeb) EXCEPT !.search = e] : r \in {Grounded, Refused, Declined}, e \in BotSearchEnvs}
    \cup {[AskOk(r, FromTheWeb) EXCEPT !.llm_ok = FALSE] : r \in {Grounded, Refused, Declined}}
    \cup {[AskOk(Grounded, FromTheWeb) EXCEPT !.chain_ok = FALSE]}

-----------------------------------------------------------------------------
(* The Bot as a state machine: one action per public method.               *)

NoRun == Ran(FALSE, <<>>, <<>>, <<>>, <<>>)

NoCall ==
    [op |-> "none", returned |-> FALSE, outcome |-> "none", question |-> <<>>,
     chain_name |-> "default", chain |-> NoChain, env |-> <<>>, result |-> <<>>,
     run |-> NoRun]

\* A conversational chain saves the turn to its memory when invoke returns;
\* the memory keeps the most recent turns only.
save_context(held, chain) ==
    IF chain.memory = NoMemory THEN held
    ELSE [held EXCEPT ![chain.memory] = IF @ < MaxTurns THEN @ + 1 ELSE @]

InitBot ==
    /\ current_memory = NoMemory
    /\ current_chain = NoChain
    /\ vectorstore = None
    /\ chains = [n \in ChainNames |-> NoChain]
    /\ turns = [m \in 1..MaxObjects |-> 0]
    /\ nextId = 0
    /\ last = NoCall

\* bot.setup_from_vectorstore(store_path, memory_type)
Setup ==
    /\ nextId < MaxObjects
    /\ \E path \in StorePaths, env \in SetupEnvs :
          \E fresh \in {create_memory(nextId)} :
          \E done \in {setup_from_vectorstore(BotState, path, env, fresh)} :
              /\ current_memory' = done.state.current_memory
              /\ current_chain' = done.state.current_chain
              /\ vectorstore' = done.state.vectorstore
              /\ chains' = done.state.chains
              /\ nextId' = IF env.memory = "ok" THEN fresh ELSE nextId
              /\ last' = [NoCall EXCEPT !.op = "setup", !.returned = done.returned,
                                        !.outcome = done.outcome]
    /\ UNCHANGED <<turns, searchVars, judgeVars, docVars>>

\* bot.ask_question(question, chain_name), run to its end by the caller
Ask ==
    /\ \E question \in Questions, chain_name \in ChainNames, env \in AskEnvs :
          \E r \in {ask_question(BotState, question, chain_name, env)} :
          \E invoked \in {Len(r.run.chain_calls) = 1 /\ env.chain_ok} :
              /\ turns' = IF invoked THEN save_context(turns, r.chain) ELSE turns
              /\ last' = [NoCall EXCEPT !.op = "ask", !.question = question,
                                        !.chain_name = chain_name, !.chain = r.chain,
                                        !.env = <<env>>,
                                        !.result = IF invoked THEN <<env.result>> ELSE <<>>,
                                        !.run = r.run]
    /\ UNCHANGED <<current_memory, current_chain, vectorstore, chains, nextId,
                   searchVars, judgeVars, docVars>>

\* bot.clear_memory(), lines 137-143
ClearMemory ==
    /\ turns' = IF current_memory # NoMemory
                THEN [turns EXCEPT ![current_memory] = 0]
                ELSE turns
    /\ last' = [NoCall EXCEPT !.op = "clear"]
    /\ UNCHANGED <<current_memory, current_chain, vectorstore, chains, nextId,
                   searchVars, judgeVars, docVars>>

\* A chain of the plain retrieval kind is registered under a free name.
RegisterChain ==
    /\ \E chain_name \in ChainNames :
          /\ chains[chain_name] = NoChain
          /\ chains' = [chains EXCEPT ![chain_name] =
                            [kind |-> "Retrieval", memory |-> NoMemory, store |-> vectorstore]]
    /\ last' = [NoCall EXCEPT !.op = "register"]
    /\ UNCHANGED <<current_memory, current_chain, vectorstore, turns, nextId,
                   searchVars, judgeVars, docVars>>

-----------------------------------------------------------------------------
(* document_processor.py: DocumentProcessor.                               *)
(* A sources file is the sequence of its lines. The environment of a call: *)
(*   read      how far the file can be read: open() or the iteration       *)
(*             raises after `delivered` lines when `raises` is true        *)
(*   failed    the paths whose text extraction fails                       *)
(*   build_ok  FAISS.from_documents returns                                *)
(*   save_ok   vectorstore.save_local returns                              *)

\* Longest sources file, in lines.
MaxLines == 2

\* The characters str.strip() removes.
Whitespace == {" ", "\t", "\n"}

RECURSIVE LStrip(_)
LStrip(s) == IF s # <<>> /\ Head(s) \in Whitespace THEN LStrip(Tail(s)) ELSE s

RECURSIVE RStrip(_)
RStrip(s) == IF s # <<>> /\ s[Len(s)] \in Whitespace THEN RStrip(DropLast(s)) ELSE s

\* str.strip()
Strip(s) == RStrip(LStrip(s))

\* s.startswith(prefix)
StartsWith(s, prefix) ==
    Len(s) >= Len(prefix) /\ SubSeq(s, 1, Len(prefix)) = prefix

\* s.endswith(suffix)
EndsWith(s, suffix) ==
    Len(s) >= Len(suffix) /\ SubSeq(s, Len(s) - Len(suffix) + 1, Len(s)) = suffix

\* s.split(sep): the pieces between the occurrences of sep, from the left.
RECURSIVE Split(_, _)
Split(s, sep) ==
    IF ~Contains(s, sep) THEN <<s>>
    ELSE LET at == CHOOSE i \in 0..(Len(s) - Len(sep)) :
                       /\ SubSeq(s, i + 1, i + Len(sep)) = sep
                       /\ \A j \in 0..(i - 1) : SubSeq(s, j + 1, j + Len(sep)) # sep
         IN  <<SubSeq(s, 1, at)>> \o Split(SubSeq(s, at + Len(sep) + 1, Len(s)), sep)

CommaSpace == <<",", " ">>

supported_types == << <<"u","r","l">>, <<"f","i","l","e">> >>

Pdf == <<".","p","d","f">>
Txt == <<".","t","x","t">>

\* One line of the loop of load_sources_from_file, lines 82-102.
ParseLine(sources, raw) ==
    LET line == Strip(raw)
    IN  IF line = <<>> \/ StartsWith(line, <<"#">>) THEN sources
        ELSE LET parts == Split(line, CommaSpace)
             IN  IF Len(parts) >= 2
                 THEN LET source_type == Strip(parts[1])
                          path == Strip(Join(Tail(parts), CommaSpace))
                      IN  IF InList(source_type, supported_types)
                          THEN Append(sources, [type |-> source_type, path |-> path])
                          ELSE sources
                 ELSE sources

RECURSIVE ParseLines(_, _)
ParseLines(lines, sources) ==
    IF lines = <<>> THEN sources
    ELSE ParseLines(Tail(lines), ParseLine(sources, Head(lines)))

\* The lines read before the exception, if there is one, are parsed; the
\* except clause logs and the sources collected so far are returned.
load_sources_from_file(file, read) ==
    ParseLines(Take(file, read.delivered), <<>>)

\* What is behind the paths: a page of white space only, and text elsewhere.
Content(path) ==
    IF path = <<"w">> THEN <<" ", "\n">> ELSE <<"F","A","Q">>

\* extract_text_from_url, extract_text_from_pdf, extract_text_from_txt: the
\* text, or the empty text when the extraction raises.
extract_text_from_url(url, failed) ==
    IF url \in failed THEN <<>> ELSE Content(url)

extract_text_from_pdf(file_path, failed) ==
    IF file_path \in failed THEN <<>> ELSE Content(file_path)

extract_text_from_txt(file_path, failed) ==
    IF file_path \in failed THEN <<>> ELSE Content(file_path)

Document(text, path, source_type) ==
    [page_content |-> text, source |-> path, type |-> source_type, length |-> Len(text)]

\* Optional[Document]: the empty sequence is None.
process_document(source, failed) ==
    LET source_type == source.type
        path == source.path
        unsupported == /\ source_type = <<"f","i","l","e">>
                       /\ ~EndsWith(path, Pdf)
                       /\ ~EndsWith(path, Txt)
        text == IF source_type = <<"u","r","l">> THEN extract_text_from_url(path, failed)
                ELSE IF source_type = <<"f","i","l","e">>
                     THEN IF EndsWith(path, Pdf) THEN extract_text_from_pdf(path, failed)
                          ELSE IF EndsWith(path, Txt) THEN extract_text_from_txt(path, failed)
                          ELSE <<>>
                     ELSE <<>>
    IN  IF unsupported THEN <<>>
        ELSE IF Strip(text) # <<>> THEN <<Document(text, path, source_type)>>
        ELSE <<>>

RECURSIVE load_documents(_, _)
load_documents(sources, failed) ==
    IF sources = <<>> THEN <<>>
    ELSE process_document(Head(sources), failed) \o load_documents(Tail(sources), failed)

\* VectorStoreManager.vectorstore: None, or the index built from documents.
NoIndex == [built |-> FALSE, docs |-> <<>>]

RECURSIVE SourcesOf(_)
SourcesOf(documents) ==
    IF documents = <<>> THEN <<>>
    ELSE <<Head(documents).source>> \o SourcesOf(Tail(documents))

FAISS_from_documents(documents) == [built |-> TRUE, docs |-> SourcesOf(documents)]

create_vectorstore(store, documents, build_ok) ==
    IF documents = <<>> THEN [vectorstore |-> store, returned |-> FALSE]
    ELSE IF build_ok
         THEN [vectorstore |-> FAISS_from_documents(documents), returned |-> TRUE]
         ELSE [vectorstore |-> store, returned |-> FALSE]

save_vectorstore(store, disk, path, save_ok) ==
    IF ~store.built THEN [disk |-> disk, returned |-> FALSE]
    ELSE IF save_ok
         THEN [disk |-> [disk EXCEPT ![path] = store], returned |-> TRUE]
         ELSE [disk |-> disk, returned |-> FALSE]

\* What one call of ingest_and_save_sources did, step by step.
Ingested(returned, store, disk, sources, docs, built, saved) ==
    [returned |-> returned, vectorstore |-> store, disk |-> disk, sources |-> sources,
     docs |-> docs, built |-> built, saved |-> saved]

ingest_and_save_sources(store, disk, file, path, env) ==
    LET sources == load_sources_from_file(file, env.read)
        docs == load_documents(sources, env.failed)
        made == create_vectorstore(store, docs, env.build_ok)
        kept == save_vectorstore(made.vectorstore, disk, path, env.save_ok)
    IN  IF sources = <<>>
        THEN Ingested(FALSE, store, disk, sources, <<>>, FALSE, FALSE)
        ELSE IF docs = <<>>
        THEN Ingested(FALSE, store, disk, sources, docs, FALSE, FALSE)
        ELSE IF ~made.returned
        THEN Ingested(FALSE, made.vectorstore, disk, sources, docs, FALSE, FALSE)
        ELSE Ingested(TRUE, made.vectorstore, kept.disk, sources, docs, TRUE, kept.returned)

-----------------------------------------------------------------------------
(* The DocumentProcessor as a state machine, on a sources file drawn by    *)
(* the initial state.                                                      *)

SourceLines ==
    { <<>>,                                                    \* a blank line
      <<"#"," ","c">>,                                         \* a comment
      <<"u","r","l",","," ","h">>,                             \* well formed
      <<" ","u","r","l"," ",","," ","h"," ">>,                 \* blanks around type and path
      <<"u","r","l",",","h">>,                                 \* comma, no blank after it
      <<"u","r","l",",","h",","," ","i">>,                     \* first comma without a blank
      <<"f","i","l","e",","," ","d",".","t","x","t">>,         \* a text file
      <<"f","i","l","e",","," ","a",",","b",".","p","d","f">>, \* a comma in the path
      <<"f","i","l","e",","," ","a",","," ","b",".","t","x","t">>, \* comma and blank in the path
      <<"f","i","l","e",","," ","d",".","d","o","c">>,         \* extension not supported
      <<"u","r","l",","," ","w">>,                             \* a page of white space only
      <<"f","t","p",","," ","h">>,                             \* type not supported
      <<"u","r","l"," ","h">> }                                \* no comma

SourceFiles == SeqsUpTo(SourceLines, MaxLines)

ReadToEnd(file) == [raises |-> FALSE, delivered |-> Len(file)]

ReadEnvs(file) ==
    {ReadToEnd(file)}
    \cup {[raises |-> TRUE, delivered |-> k] : k \in 0..(Len(file) - 1)}
    \cup {[raises |-> TRUE, delivered |-> 0]}

PathsOf(file) ==
    LET sources == load_sources_from_file(file, ReadToEnd(file))
    IN  {sources[i].path : i \in 1..Len(sources)}

IngestOk(file, failed) ==
    [read |-> ReadToEnd(file), failed |-> failed, build_ok |-> TRUE, save_ok |-> TRUE]

\* Every step works but some extractions; or the file cannot be opened; or
\* the build fails; or the save fails.
IngestEnvs(file) ==
    {IngestOk(file, failed) : failed \in SUBSET PathsOf(file)}
    \cup {[IngestOk(file, {}) EXCEPT !.read = [raises |-> TRUE, delivered |-> 0]]}
    \cup {[IngestOk(file, {}) EXCEPT !.build_ok = FALSE]}
    \cup {[IngestOk(file, {}) EXCEPT !.save_ok = FALSE]}

NoDocCall ==
    [op |-> "none", returned |-> FALSE, read |-> [raises |-> FALSE, delivered |-> 0],
     store_path |-> None, sources |-> <<>>, docs |-> <<>>, built |-> FALSE,
     saved |-> FALSE, save_ok |-> FALSE]

IdleDocs ==
    /\ d_file = <<>>
    /\ d_vectorstore = NoIndex
    /\ d_disk = [p \in StorePaths |-> NoIndex]
    /\ d_last = NoDocCall

\* document_processor.load_sources_from_file(sources_file)
LoadSources ==
    /\ \E read \in ReadEnvs(d_file) :
          d_last' = [NoDocCall EXCEPT !.op = "load_sources", !.read = read,
                                      !.sources = load_sources_from_file(d_file, read)]
    /\ UNCHANGED <<d_file, d_vectorstore, d_disk, botVars, searchVars, judgeVars>>

\* document_processor.ingest_and_save_sources(sources_file, store_path)
Ingest ==
    /\ \E path \in StorePaths, env \in IngestEnvs(d_file) :
          \E r \in {ingest_and_save_sources(d_vectorstore, d_disk, d_file, path, env)} :
              /\ d_vectorstore' = r.vectorstore
              /\ d_disk' = r.disk
              /\ d_last' = [NoDocCall EXCEPT !.op = "ingest", !.returned = r.returned,
                                          !.read = env.read, !.store_path = path,
                                          !.sources = r.sources, !.docs = r.docs,
                                          !.built = r.built, !.saved = r.saved,
                                          !.save_ok = env.save_ok]
    /\ UNCHANGED <<d_file, botVars, searchVars, judgeVars>>

-----------------------------------------------------------------------------
(* google_search and is_answer_unavailable on their own: the call is made  *)
(* once, on arguments drawn by the initial state.                          *)

SearchInputs ==
    [query : Queries, num_results : 0..MaxN, add_cmu_africa_context : BOOLEAN,
     env : SearchEnvs]

IdleSearch ==
    /\ s_in = [query |-> <<>>, num_results |-> 0, add_cmu_africa_context |-> FALSE,
               env |-> [api_key |-> None, provider |-> "ok", results |-> <<>>, failed |-> {}]]
    /\ s_out = NotSearched

IdleJudge ==
    /\ j_answer = <<>>
    /\ j_result = NotJudged

InitSearch ==
    /\ InitBot
    /\ IdleJudge
    /\ IdleDocs
    /\ s_in \in SearchInputs
    /\ s_out = NotSearched

GoogleSearchCall ==
    /\ ~s_out.called
    /\ s_out' = google_search(s_in.query, s_in.num_results,
                              s_in.add_cmu_africa_context, s_in.env)
    /\ UNCHANGED <<s_in, botVars, judgeVars, docVars>>

InitJudge ==
    /\ InitBot
    /\ IdleSearch
    /\ IdleDocs
    /\ j_answer \in JudgeTexts
    /\ j_result = NotJudged

JudgeCall ==
    /\ ~j_result.called
    /\ j_result' = [called |-> TRUE, value |-> is_answer_unavailable(j_answer)]
    /\ UNCHANGED <<j_answer, botVars, searchVars, docVars>>

InitDocs ==
    /\ InitBot
    /\ IdleSearch
    /\ IdleJudge
    /\ d_file \in SourceFiles
    /\ d_vectorstore = NoIndex
    /\ d_disk = [p \in StorePaths |-> NoIndex]
    /\ d_last = NoDocCall

-----------------------------------------------------------------------------
(* The specifications. *)

Init == InitBot /\ IdleSearch /\ IdleJudge /\ IdleDocs

Next == Setup \/ Ask \/ ClearMemory \/ RegisterChain

Spec == Init /\ [][Next]_vars

NextSearch == GoogleSearchCall

SpecSearch == InitSearch /\ [][NextSearch]_vars

NextJudge == JudgeCall

SpecJudge == InitJudge /\ [][NextJudge]_vars

NextDocs == LoadSources \/ Ingest

SpecDocs == InitDocs /\ [][NextDocs]_vars

-----------------------------------------------------------------------------
(* The claims. *)

NoChainText == <<"No QA chain available. Please run setup first.">>
ErrorText == <<"Sorry, I encountered an error processing your question.">>
SearchEngineTag == "www.google.com, Google Search"
CannotAnswer == <<"c","a","n","n","o","t"," ","a","n","s","w","e","r">>

\* Two characters are the same letter, in whatever case.
SameLetter(a, b) ==
    \/ a = b
    \/ \E n \in 1..Len(UpperChars) : {a, b} = {UpperChars[n], LowerChars[n]}

\* The phrase stands somewhere in the text, each letter in either case.
InAnyCase(phrase, text) ==
    \E i \in 0..(Len(text) - Len(phrase)) :
        \A j \in 1..Len(phrase) : SameLetter(text[i + j], phrase[j])

Asked == last.op = "ask"
AskedEnv == last.env[1]
\* The call reached a chain, chain.invoke returned, and this is its answer.
ChainAnswered == Asked /\ last.chain # NoChain /\ last.result # <<>>
ChainAnswer == last.result[1].answer
SearchRaises(e) == e.api_key = None \/ e.api_key = "" \/ e.provider = "raise"
IsErrorAnswer(r) == r = [answer |-> ErrorText, source_documents |-> <<>>]
IsFallbackAnswer(r, content) ==
    /\ DOMAIN r = {"answer", "source_documents", "fallback_used"}
    /\ r.answer = content
    /\ r.fallback_used = TRUE
    /\ Len(r.source_documents) = 1
    /\ r.source_documents[1].metadata.source = SearchEngineTag

\* C1 as stated: whenever the chain's answer contains "cannot answer", the
\* call makes exactly one search call with the question and exactly one
\* generation call, and returns the fallback answer: fallback_used true and
\* exactly one source document, tagged as the search engine's.
C1_AlwaysFallbackAnswer ==
    (ChainAnswered /\ InAnyCase(CannotAnswer, ChainAnswer)) =>
        /\ last.run.search_calls = <<last.question>>
        /\ Len(last.run.llm_calls) = 1
        /\ Len(last.run.yielded) = 1
        /\ IsFallbackAnswer(last.run.yielded[1], AskedEnv.content)

\* C1, amended: whenever the chain's answer contains "cannot answer", the
\* call makes exactly one search call, with the question. If the search
\* raises, no generation call is made and the error answer is returned; if
\* it returns, exactly one generation call is made, and the call returns the
\* fallback answer (fallback_used true, exactly one source document, tagged
\* as the search engine's) when the generation returns and the error answer
\* when it raises.
C1_FallbackUnlessRaised ==
    (ChainAnswered /\ InAnyCase(CannotAnswer, ChainAnswer)) =>
        /\ last.run.search_calls = <<last.question>>
        /\ Len(last.run.yielded) = 1
        /\ IF SearchRaises(AskedEnv.search)
           THEN last.run.llm_calls = <<>> /\ IsErrorAnswer(last.run.yielded[1])
           ELSE /\ Len(last.run.llm_calls) = 1
                /\ IF AskedEnv.llm_ok
                   THEN IsFallbackAnswer(last.run.yielded[1], AskedEnv.content)
                   ELSE IsErrorAnswer(last.run.yielded[1])

C1_Witness ==
    /\ ChainAnswered /\ InAnyCase(CannotAnswer, ChainAnswer)
    /\ ~SearchRaises(AskedEnv.search) /\ AskedEnv.llm_ok
    /\ IsFallbackAnswer(last.run.yielded[1], FromTheWeb)

\* C2: a call made when no chain is registered under the name asked for and
\* there is no current chain returns the fixed "No QA chain available"
\* answer, with no sources and no fallback_used entry, and calls neither the
\* chain, nor the search, nor the llm.
C2_NoChainNoProvider ==
    (Asked /\ chains[last.chain_name] = NoChain /\ current_chain = NoChain) =>
        /\ ~last.run.raised
        /\ last.run.yielded = << [answer |-> NoChainText, source_documents |-> <<>>] >>
        /\ "fallback_used" \notin DOMAIN last.run.yielded[1]
        /\ last.run.chain_calls = <<>>
        /\ last.run.search_calls = <<>>
        /\ last.run.llm_calls = <<>>

C2_Witness ==
    /\ Asked /\ chains[last.chain_name] = NoChain /\ current_chain = NoChain
    /\ current_memory # NoMemory
    /\ last.run.yielded[1].answer = NoChainText

\* One of the calls ask_question made raised.
AskFailed ==
    /\ last.chain # NoChain
    /\ \/ ~AskedEnv.chain_ok
       \/ /\ is_answer_unavailable(AskedEnv.result.answer)
          /\ (SearchRaises(AskedEnv.search) \/ ~AskedEnv.llm_ok)

C4_FailedSetupKeepsChain ==
    [][(last'.op = "setup" /\ last'.outcome \in {"load_failed", "raised"}) =>
          (last'.returned = FALSE /\ current_chain' = current_chain)]_vars

C4_Witness ==
    /\ last.op = "setup" /\ last.outcome = "load_failed" /\ ~last.returned
    /\ current_chain # NoChain

\* C5 as stated: the current chain, when there is one, is bound to the
\* current memory, the one clear_memory clears.
C5_ChainBoundToCurrentMemory ==
    current_chain # NoChain => current_chain.memory = current_memory

Searched == s_out.called /\ ~s_out.raised

\* C6 as stated: google_search returns at most num_results snippets, none of
\* them empty, for every num_results >= 0.
C6_AtMostN ==
    Searched =>
        /\ Len(s_out.snippets) <= s_in.num_results
        /\ \A i \in 1..Len(s_out.snippets) : s_out.snippets[i] # <<>>

\* The snippets the second pass appended are those after the relevant ones.
Backfilled == (s_out.relevant + 1)..Len(s_out.snippets)
\* Fewer than num_results relevant snippets were found by the first pass.
NeedsBackfill == Searched /\ s_out.relevant < s_in.num_results
BackfillInRankedOrder ==
    /\ \A j \in Backfilled : \A k \in Backfilled : j < k => s_out.ranks[j] < s_out.ranks[k]
    /\ \A j \in Backfilled :
          s_out.snippets[j] = Take(Web[s_in.env.results[s_out.ranks[j]]], PageCap)
BackfillUpToN ==
    /\ Len(s_out.snippets) <= s_in.num_results
    /\ \/ Len(s_out.snippets) = s_in.num_results
       \/ \A i \in 1..Len(s_in.env.results) :
             \/ <<2, i>> \in s_in.env.failed
             \/ s_in.env.results[i] \notin DOMAIN Web
             \/ Web[s_in.env.results[i]] = <<>>
             \/ InList(Take(Web[s_in.env.results[i]], PageCap), s_out.snippets)

\* C7 as stated: with fewer than num_results relevant pages, the search
\* backfills up to num_results, or until the results are exhausted, in
\* ranked order, and the returned snippets hold no text twice.
C7_NoSnippetTwice ==
    NeedsBackfill =>
        /\ BackfillUpToN
        /\ BackfillInRankedOrder
        /\ \A i \in 1..Len(s_out.snippets) : \A j \in 1..Len(s_out.snippets) :
              i # j => s_out.snippets[i] # s_out.snippets[j]

\* C7, amended: with fewer than num_results relevant snippets, the search
\* backfills up to num_results, or until the results are exhausted, in
\* ranked order, and no backfilled snippet has the text of a snippet
\* included before it; two relevant pages of the same text are both kept.
C7_BackfillNeverDuplicates ==
    NeedsBackfill =>
        /\ BackfillUpToN
        /\ BackfillInRankedOrder
        /\ \A j \in Backfilled : \A i \in 1..(j - 1) : s_out.snippets[i] # s_out.snippets[j]

C7_Witness ==
    /\ NeedsBackfill
    /\ s_out.relevant >= 1
    /\ Len(s_out.snippets) > s_out.relevant
    /\ Len(s_in.env.results) > Len(s_out.snippets)

KeyMissing == s_in.env.api_key = None \/ s_in.env.api_key = ""

\* C8 as stated: google_search raises when and only when the credential is
\* missing, and then before any search request and any page fetch.
C8_OnlyMissingKeyRaises ==
    s_out.called =>
        /\ s_out.raised <=> KeyMissing
        /\ KeyMissing => (s_out.requests = <<>> /\ s_out.fetches = 0)

\* C8, amended: google_search raises when the credential is missing, and
\* then before any search request and any page fetch, and when the search
\* request itself raises, and in no other case: a page fetch that fails
\* makes an empty snippet and the call returns its text.
C8_KeyOrProviderRaises ==
    s_out.called =>
        /\ s_out.raised <=> (KeyMissing \/ s_in.env.provider = "raise")
        /\ KeyMissing => (s_out.error = "ValueError" /\ s_out.requests = <<>>
                          /\ s_out.fetches = 0)
        /\ ~s_out.raised =>
              \A i \in 1..Len(s_out.snippets) :
                  /\ s_out.snippets[i] # <<>>
                  /\ s_in.env.results[s_out.ranks[i]] \in DOMAIN Web
                  /\ s_out.snippets[i] = Take(Web[s_in.env.results[s_out.ranks[i]]], PageCap)

C8_Witness ==
    /\ Searched
    /\ s_in.env.failed # {}
    /\ s_out.fetches > Len(s_in.env.results)

\* C9: when the chain's answer is judged usable, the call returns what the
\* chain returned, as it is, with fallback_used false or absent, and makes
\* no search call and no generation call.
C9_UsableAnswerVerbatim ==
    (ChainAnswered /\ ~is_answer_unavailable(ChainAnswer)) =>
        /\ last.run.yielded = last.result
        /\ \/ "fallback_used" \notin DOMAIN last.run.yielded[1]
           \/ last.run.yielded[1].fallback_used = FALSE
        /\ last.run.search_calls = <<>>
        /\ last.run.llm_calls = <<>>

C9_Witness ==
    /\ ChainAnswered /\ ~is_answer_unavailable(ChainAnswer)
    /\ SearchRaises(AskedEnv.search)
    /\ last.run.yielded = <<Grounded>>

\* C10: is_answer_unavailable is true of a text that holds one of the
\* trigger phrases in any letter case, and false of a text that holds none.
C10_TrueIffPhraseInAnyCase ==
    j_result.called =>
        (j_result.value <=> \E k \in 1..Len(keywords) : InAnyCase(keywords[k], j_answer))

C10_Witness ==
    /\ j_result.called /\ j_result.value
    /\ \A k \in 1..Len(keywords) : ~Contains(j_answer, keywords[k])

-----------------------------------------------------------------------------
(* The sources file and the ingestion. *)

Comma == <<",">>

HasComma(line) == Contains(line, Comma)

\* The text before the first comma of a line that has one, and the text after it.
BeforeFirstComma(line) ==
    SubSeq(line, 1, (CHOOSE i \in 1..Len(line) :
                        line[i] = "," /\ \A j \in 1..(i - 1) : line[j] # ",") - 1)

AfterFirstComma(line) ==
    SubSeq(line, Len(BeforeFirstComma(line)) + 2, Len(line))

Blank(line) == Strip(line) = <<>>

Comment(line) == StartsWith(Strip(line), <<"#">>)

\* A line `type, path`: not blank, not a comment, a supported type before
\* its first comma and a path after it.
WellFormed(line) ==
    /\ ~Blank(line)
    /\ ~Comment(line)
    /\ HasComma(Strip(line))
    /\ InList(Strip(BeforeFirstComma(Strip(line))), supported_types)
    /\ Strip(AfterFirstComma(Strip(line))) # <<>>

Descriptor(line) ==
    [type |-> Strip(BeforeFirstComma(Strip(line))),
     path |-> Strip(AfterFirstComma(Strip(line)))]

\* One descriptor per well-formed line, in file order.
RECURSIVE Described(_)
Described(file) ==
    IF file = <<>> THEN <<>>
    ELSE (IF WellFormed(Head(file)) THEN <<Descriptor(Head(file))>> ELSE <<>>)
         \o Described(Tail(file))

LoadedToEnd == d_last.op = "load_sources" /\ ~d_last.read.raises

\* C11: load_sources_from_file returns exactly one descriptor per well-formed
\* `type, path` line, in file order, the type and the path split at the
\* first comma of the line and the path returned as it is; blank lines,
\* comment lines, lines of an unsupported type and lines with no comma are
\* skipped.
C11_OneDescriptorPerWellFormedLine ==
    LoadedToEnd => d_last.sources = Described(d_file)

IngestReturned == d_last.op = "ingest"

\* C12: ingest_and_save_sources returns True only when the documents were
\* loaded, the index was built and the index was saved to disk at
\* store_path; when one of these steps fails, the save included, it returns
\* False.
C12_TrueOnlyWhenSaved ==
    (IngestReturned /\ d_last.returned) =>
        /\ d_last.docs # <<>>
        /\ d_last.built
        /\ d_last.saved
        /\ d_disk[d_last.store_path] = d_vectorstore

====
